---- MODULE Spec2Model ----
(***************************************************************************)
(* Model of the Memberstack MCP documentation server (src/src/index.ts).   *)
(*                                                                         *)
(* Text (file contents, paths, queries, URIs) is a sequence of symbols.    *)
(* A symbol is one character ("#", " ", "\n", "a", "A", ...)     or an     *)
(* indivisible chunk of characters ("dom-package", ".md", ...); no         *)
(* substring test of the program straddles two symbols of the corpus used. *)
(* The backtick character is written Tick.                                 *)
(* Every await of a handler is one action: the file system may change      *)
(* between two awaits of the same request.                                 *)
(***************************************************************************)
EXTENDS Naturals, Sequences, FiniteSets, TLC

VARIABLES
    fs,       \* the disk: path |-> file state
    req,      \* the requests being handled: id |-> handler state
    handles,  \* the resources of the latest ListResources response, held by the client
    server    \* the server object: how far the program's start has come, the
              \* request handlers set on it, whether a transport is connected

vars == <<fs, req, handles, server>>

-----------------------------------------------------------------------------
(* Bounds and program constants *)

\* number of lines of the large reference document that contain the query "a"
MaxHits == 7

\* matches.slice(0, 5)
MaxMatches == 5

-----------------------------------------------------------------------------
(* JavaScript string primitives over symbol sequences *)

Min(a, b) == IF a < b THEN a ELSE b

\* String.prototype.startsWith at position i (1-based)
MatchesAt(s, sub, i) ==
    /\ i + Len(sub) - 1 <= Len(s)
    /\ \A k \in 1..Len(sub) : s[i + k - 1] = sub[k]

\* String.prototype.includes
Includes(s, sub) == \E i \in 1..(Len(s) + 1) : MatchesAt(s, sub, i)

\* String.prototype.indexOf, 1-based; 0 when absent
IndexOf(s, sub) ==
    IF Includes(s, sub)
    THEN CHOOSE i \in 1..(Len(s) + 1) :
            /\ MatchesAt(s, sub, i)
            /\ \A j \in 1..(i - 1) : ~MatchesAt(s, sub, j)
    ELSE 0

\* String.prototype.replace with a string pattern: the first occurrence only
Replace(s, pat, rep) ==
    LET i == IndexOf(s, pat)
    IN IF i = 0 THEN s
       ELSE SubSeq(s, 1, i - 1) \o rep \o SubSeq(s, i + Len(pat), Len(s))

EndsWith(s, suffix) ==
    /\ Len(suffix) <= Len(s)
    /\ SubSeq(s, Len(s) - Len(suffix) + 1, Len(s)) = suffix

StartsWith(s, prefix) == MatchesAt(s, prefix, 1)

\* String.prototype.toLowerCase, symbol by symbol
LowerSym(c) ==
    CASE c = "A" -> "a"
      [] c = "B" -> "b"
      [] OTHER -> c

ToLowerCase(s) == [i \in 1..Len(s) |-> LowerSym(s[i])]

\* String.prototype.split on a one-symbol separator; "" splits into [""]
RECURSIVE Split(_, _)
Split(s, sep) ==
    IF \A i \in 1..Len(s) : s[i] # sep
    THEN <<s>>
    ELSE LET i == CHOOSE k \in 1..Len(s) :
                     /\ s[k] = sep
                     /\ \A j \in 1..(k - 1) : s[j] # sep
         IN <<SubSeq(s, 1, i - 1)>> \o Split(SubSeq(s, i + 1, Len(s)), sep)

\* Array.prototype.join
RECURSIVE Join(_, _)
Join(parts, sep) ==
    IF parts = <<>> THEN <<>>
    ELSE IF Len(parts) = 1 THEN parts[1]
    ELSE parts[1] \o sep \o Join(Tail(parts), sep)

\* Array.prototype.slice(0, n)
Slice0(xs, n) == SubSeq(xs, 1, Min(n, Len(xs)))

\* regular-expression character classes: \s and the line terminators that
\* "." refuses and "^"/"$" (flag m) anchor on
IsSpace(c) == c \in {" ", "\t", "\n", "\r"}
IsLineTerminator(c) == c \in {"\n", "\r"}


\* the backtick character (U+0060)
Tick == "tick"

\* position where the run of non-line-terminators starting at p ends (the
\* last symbol "." accepts), p - 1 when s[p] is a line terminator or past the end
RECURSIVE LineEnd(_, _)
LineEnd(s, p) ==
    IF p > Len(s) \/ IsLineTerminator(s[p]) THEN p - 1 ELSE LineEnd(s, p + 1)

\* "^" under flag m: the start of the text or just after a line terminator
AtLineStart(s, i) == i = 1 \/ IsLineTerminator(s[i - 1])

\* /^#\s+(.+)$/m anchored at i with \s+ taking k symbols
TitleMatchAt(s, i, k) ==
    /\ AtLineStart(s, i)
    /\ i + k + 1 <= Len(s)
    /\ s[i] = "#"
    /\ \A j \in (i + 1)..(i + k) : IsSpace(s[j])
    /\ ~IsLineTerminator(s[i + k + 1])

\* content.match(/^#\s+(.+)$/m): the leftmost match, \s+ greedy, then (.+)
\* up to the end of that line. [found, group1]
TitleMatch(s) ==
    LET Starts == {i \in 1..Len(s) : \E k \in 1..Len(s) : TitleMatchAt(s, i, k)}
    IN IF Starts = {} THEN [found |-> FALSE, group1 |-> <<>>]
       ELSE LET i == CHOOSE x \in Starts : \A y \in Starts : x <= y
                k == CHOOSE x \in 1..Len(s) :
                        /\ TitleMatchAt(s, i, x)
                        /\ \A y \in 1..Len(s) : TitleMatchAt(s, i, y) => y <= x
            IN [found |-> TRUE,
                group1 |-> SubSeq(s, i + k + 1, LineEnd(s, i + k + 1))]

\* /^###\s+T(.+)T/ (T the backtick) anchored at i, \s+ taking k symbols, the closing backtick at q
MethodMatchAt(s, i, k, q) ==
    /\ AtLineStart(s, i)
    /\ MatchesAt(s, <<"#", "#", "#">>, i)
    /\ k >= 1
    /\ i + 3 + k <= Len(s)
    /\ \A j \in (i + 3)..(i + 2 + k) : IsSpace(s[j])
    /\ s[i + 3 + k] = Tick
    /\ q >= i + 3 + k + 2
    /\ q <= LineEnd(s, i + 3 + k + 1)
    /\ s[q] = Tick

\* one methodRegex.exec(content) with lastIndex = from - 1: the leftmost match
\* at or after from, (.+) greedy so the closing backtick is the last one of
\* the line. [found, group1, next] where next - 1 is the new lastIndex
MethodExec(s, from) ==
    LET Starts == {i \in from..Len(s) :
                     /\ AtLineStart(s, i)
                     /\ MatchesAt(s, <<"#", "#", "#">>, i)
                     /\ \E k \in 1..Len(s), q \in 1..Len(s) : MethodMatchAt(s, i, k, q)}
    IN IF Starts = {} THEN [found |-> FALSE, group1 |-> <<>>, next |-> 1]
       ELSE LET i == CHOOSE x \in Starts : \A y \in Starts : x <= y
                k == CHOOSE x \in 1..Len(s) :
                        \E q \in 1..Len(s) : MethodMatchAt(s, i, x, q)
                q == CHOOSE x \in 1..Len(s) :
                        /\ MethodMatchAt(s, i, k, x)
                        /\ \A y \in 1..Len(s) : MethodMatchAt(s, i, k, y) => y <= x
            IN [found |-> TRUE,
                group1 |-> SubSeq(s, i + 3 + k + 1, q - 1),
                next |-> q + 1]

\* while ((match = methodRegex.exec(content)) !== null) methods.push(match[1])
RECURSIVE ExtractMethods(_, _)
ExtractMethods(s, from) ==
    LET m == MethodExec(s, from)
    IN IF m.found THEN <<m.group1>> \o ExtractMethods(s, m.next) ELSE <<>>

-----------------------------------------------------------------------------
(* JavaScript values and node's path module *)

Str(v) == [t |-> "string", v |-> v]
Undefined == [t |-> "undefined", v |-> <<>>]
\* a value that is neither a string nor undefined (a number, a function)
Num(v) == [t |-> "number", v |-> v]
Function == [t |-> "function", v |-> <<>>]

\* `${x}` in a template literal
Interpolate(x) == IF x.t = "undefined" THEN <<"undefined">> ELSE x.v

\* truthiness as tested by if (x), x && ..., !x
Truthy(x) ==
    CASE x.t = "undefined" -> FALSE
      [] x.t = "string" -> x.v # <<>>
      [] OTHER -> TRUE

\* ".." and "." resolved over the segments of a path, left to right
RECURSIVE ResolveSegments(_, _, _)
ResolveSegments(segs, stack, absolute) ==
    IF segs = <<>> THEN stack
    ELSE LET seg == Head(segs)
             rest == Tail(segs)
         IN CASE seg = <<".">> -> ResolveSegments(rest, stack, absolute)
              [] seg = <<"..">> ->
                    IF stack # <<>> /\ stack[Len(stack)] # <<"..">>
                    THEN ResolveSegments(rest, SubSeq(stack, 1, Len(stack) - 1), absolute)
                    ELSE IF absolute
                    THEN ResolveSegments(rest, stack, absolute)
                    ELSE ResolveSegments(rest, Append(stack, seg), absolute)
              [] OTHER -> ResolveSegments(rest, Append(stack, seg), absolute)

\* path.normalize (posix)
Normalize(p) ==
    IF p = <<>> THEN <<".">>
    ELSE LET absolute == p[1] = "/"
             trailing == p[Len(p)] = "/"
             segs == SelectSeq(Split(p, "/"), LAMBDA x : x # <<>>)
             body == Join(ResolveSegments(segs, <<>>, absolute), <<"/">>)
         IN IF body = <<>>
            THEN (IF absolute THEN <<"/">> ELSE IF trailing THEN <<".", "/">> ELSE <<".">>)
            ELSE (IF absolute THEN <<"/">> ELSE <<>>) \o body
                 \o (IF trailing THEN <<"/">> ELSE <<>>)

\* path.join(a, b): the non-empty arguments joined by "/", then normalized
PathJoin(a, b) ==
    Normalize(Join(SelectSeq(<<a, b>>, LAMBDA x : x # <<>>), <<"/">>))

\* path.basename(p, ext)
Basename(p, ext) ==
    LET segs == SelectSeq(Split(p, "/"), LAMBDA x : x # <<>>)
        base == IF segs = <<>> THEN <<>> ELSE segs[Len(segs)]
    IN IF EndsWith(base, ext) /\ base # ext
       THEN SubSeq(base, 1, Len(base) - Len(ext))
       ELSE base

-----------------------------------------------------------------------------
(* The file system *)

\* this.docsPath = path.join(__dirname, "..", "docs"), the package at /app
DocsPath == <<"/", "app", "/", "docs">>

DomRefRel == <<"dom-package", "/", "dom-api-reference", ".md">>
AdminRefRel == <<"admin-package", "/", "admin-api-reference", ".md">>
RestRefRel == <<"rest-api", "/", "rest-api-reference", ".md">>
GuideRel == <<"guide", ".md">>
ReportRel == <<"..", "/", "validation-report", ".json">>

DomRefAbs == PathJoin(DocsPath, DomRefRel)
GuideAbs == PathJoin(DocsPath, GuideRel)
ReportAbs == PathJoin(DocsPath, ReportRel)

\* the files of the small disk, the one the environment changes
FsPaths == {DomRefAbs, GuideAbs, ReportAbs}

\* a larger tree of documents, relative to the root, named after the shipped
\* docs and after names that meet several rules of getCategoryFromPath
WideRels ==
    <<DomRefRel,
      <<"dom-package", "/", "dom-", "integration-patterns", ".md">>,
      <<"dom-package", "/", "dom-", "decision-trees", ".md">>,
      AdminRefRel,
      <<"admin-package", "/", "quick-start", ".md">>,
      RestRefRel,
      <<"guides", "/", "authentication-flows", ".md">>,
      <<"guides", "/", "error-handling-guide", ".md">>,
      <<"guides", "/", "integration-patterns", ".md">>,
      <<"guides", "/", "decision-trees", ".md">>,
      GuideRel,
      <<"quick-start", ".md">>,
      <<"quick-start", "/", "intro", ".md">>>>
WidePaths == {PathJoin(DocsPath, WideRels[i]) : i \in 1..Len(WideRels)}

\* every file of the model, in the order a directory walk meets them
FsOrder == [i \in 1..Len(WideRels) |-> PathJoin(DocsPath, WideRels[i])] \o <<ReportAbs>>

Absent == [st |-> "absent", text |-> <<>>]
\* listed by a directory walk but not readable (EACCES, or a directory
\* whose name ends in .md)
Unreadable == [st |-> "unreadable", text |-> <<>>]
File(text) == [st |-> "file", text |-> text]
\* a directory that can be listed
Directory == [st |-> "dir", text |-> <<>>]

\* the lines "a1", "a2", ..., "an", each containing the symbol "a"
HitLines(n) == Join([i \in 1..n |-> <<"a", ToString(i)>>], <<"\n">>)

\* a reference document: a level-1 heading, the method headings login(),
\* logout() and login() once more, a level-2 heading with a code span between
\* them, and MaxHits lines containing "a"
BigDoc ==
    <<"#", " ", "T", "\n",
      "#", "#", "#", " ", Tick, "login", "(", ")", Tick, "\n",
      "#", "#", " ", Tick, "setup", Tick, "\n",
      "#", "#", "#", " ", Tick, "logout", "(", ")", Tick, "\n",
      "#", "#", "#", " ", Tick, "login", "(", ")", Tick, "\n">>
    \o HitLines(MaxHits)

\* a document without a level-1 heading, with a blank line and two lines
\* containing "a" in either case
GuideDoc ==
    <<"intro", "\n", "\n", "A", " ", "b", "\n", "#", "#", " ", "a">>

\* a short document with a level-1 heading and one line containing "a"
SmallDoc == <<"#", " ", "T", "\n", "a">>

\* a document whose first line is a heading mark with no text
HollowDoc == <<"#", "\n", "steps", "\n", "a">>

\* a reference whose method headings carry two code spans, or none on the
\* heading line itself
TwoSpanDoc ==
    <<"#", " ", "T", "\n",
      "#", "#", "#", " ", Tick, "create", Tick, " ", "or", " ", Tick, "update", Tick, "\n",
      "a">>

\* the content of the documents of the larger tree
WideDoc(p) ==
    IF p = PathJoin(DocsPath, <<"guides", "/", "decision-trees", ".md">>) THEN HollowDoc
    ELSE IF p = PathJoin(DocsPath, AdminRefRel) THEN TwoSpanDoc
    ELSE SmallDoc

\* the larger tree, every document present
WideDisk == (DocsPath :> Directory) @@ [p \in WidePaths |-> File(WideDoc(p))]

ReportFull == <<"{", "dom", "admin", "rest", "}">>
ReportBroken == <<"not-json">>
\* valid JSON without some of the sections dom, admin, rest
ReportEmpty == <<"{", "}">>
ReportDomOnly == <<"{", "dom", "}">>
ReportDomAdmin == <<"{", "dom", "admin", "}">>
ReportRestOnly == <<"{", "rest", "}">>

\* what may be at the place of validation-report.json
ReportStates ==
    {Absent, Unreadable, File(ReportBroken), File(ReportFull), File(ReportEmpty),
     File(ReportDomOnly), File(ReportDomAdmin), File(ReportRestOnly)}

FileStates(p) ==
    CASE p = DomRefAbs -> {Absent, Unreadable, File(BigDoc)}
      [] p = GuideAbs -> {Absent, Unreadable, File(GuideDoc)}
      [] p = ReportAbs -> {Absent, File(ReportBroken), File(ReportFull)}

\* fs.readFile(p, "utf-8"): [ok, text]; ok = FALSE is the rejected promise
ReadFile(disk, p) ==
    IF p \in DOMAIN disk /\ disk[p].st = "file"
    THEN [ok |-> TRUE, text |-> disk[p].text]
    ELSE [ok |-> FALSE, text |-> <<>>]

\* a walk that lists the entries under cwd whatever the state of cwd itself
Glob_RootUnchecked(disk, cwd) ==
    LET under == SelectSeq(FsOrder, LAMBDA p :
                     /\ p \in DOMAIN disk
                     /\ disk[p].st # "absent"
                     /\ StartsWith(p, cwd \o <<"/">>)
                     /\ EndsWith(p, <<".md">>))
    IN [i \in 1..Len(under) |-> SubSeq(under[i], Len(cwd) + 2, Len(under[i]))]

\* glob("**/*.md", { cwd }): the paths, relative to cwd, of the entries under
\* cwd whose name ends in .md; nothing when cwd is missing or cannot be
\* listed. (A walk that rejects instead is caught at the end of
\* getDocumentationFiles, which returns the same empty list.)
Glob(disk, cwd) ==
    LET under == SelectSeq(FsOrder, LAMBDA p :
                     /\ disk[cwd].st = "dir"
                     /\ p \in DOMAIN disk
                     /\ disk[p].st # "absent"
                     /\ StartsWith(p, cwd \o <<"/">>)
                     /\ EndsWith(p, <<".md">>))
    IN [i \in 1..Len(under) |-> SubSeq(under[i], Len(cwd) + 2, Len(under[i]))]

-----------------------------------------------------------------------------
(* The catalog: getDocumentationFiles and getCategoryFromPath *)

\* DOC_CATEGORIES
DOC_CATEGORIES ==
    [k \in {"dom-api", "admin-api", "rest-api", "authentication", "quick-start",
            "error-handling", "integration-patterns", "decision-trees"} |->
        CASE k = "dom-api" -> "DOM Package API Reference"
          [] k = "admin-api" -> "Admin Package API Reference"
          [] k = "rest-api" -> "REST API Reference"
          [] k = "authentication" -> "Authentication Flows"
          [] k = "quick-start" -> "Quick Start Guide"
          [] k = "error-handling" -> "Error Handling Guide"
          [] k = "integration-patterns" -> "Integration Patterns"
          [] k = "decision-trees" -> "Method Decision Trees"]

\* the rules with the tests on the file's subject before the tests on its
\* package directory
getCategoryFromPath_SubjectFirst(filePath) ==
    LET basename == Basename(filePath, <<".md">>)
    IN IF basename = <<"authentication-flows">> THEN "authentication"
       ELSE IF basename = <<"quick-start">> THEN "quick-start"
       ELSE IF basename = <<"error-handling-guide">> THEN "error-handling"
       ELSE IF Includes(filePath, <<"integration-patterns">>) THEN "integration-patterns"
       ELSE IF Includes(filePath, <<"decision-trees">>) THEN "decision-trees"
       ELSE IF Includes(filePath, <<"dom-package">>) THEN "dom-api"
       ELSE IF Includes(filePath, <<"admin-package">>) THEN "admin-api"
       ELSE IF Includes(filePath, <<"rest-api">>) THEN "rest-api"
       ELSE "general"

\* the rules with the integration-patterns test moved to the top
getCategoryFromPath_PatternsFirst(filePath) ==
    LET basename == Basename(filePath, <<".md">>)
    IN IF Includes(filePath, <<"integration-patterns">>) THEN "integration-patterns"
       ELSE IF Includes(filePath, <<"dom-package">>) THEN "dom-api"
       ELSE IF Includes(filePath, <<"admin-package">>) THEN "admin-api"
       ELSE IF Includes(filePath, <<"rest-api">>) THEN "rest-api"
       ELSE IF basename = <<"authentication-flows">> THEN "authentication"
       ELSE IF basename = <<"quick-start">> THEN "quick-start"
       ELSE IF basename = <<"error-handling-guide">> THEN "error-handling"
       ELSE IF Includes(filePath, <<"decision-trees">>) THEN "decision-trees"
       ELSE "general"

getCategoryFromPath(filePath) ==
    LET basename == Basename(filePath, <<".md">>)
    IN IF Includes(filePath, <<"dom-package">>) THEN "dom-api"
       ELSE IF Includes(filePath, <<"admin-package">>) THEN "admin-api"
       ELSE IF Includes(filePath, <<"rest-api">>) THEN "rest-api"
       ELSE IF basename = <<"authentication-flows">> THEN "authentication"
       ELSE IF basename = <<"quick-start">> THEN "quick-start"
       ELSE IF basename = <<"error-handling-guide">> THEN "error-handling"
       ELSE IF Includes(filePath, <<"integration-patterns">>) THEN "integration-patterns"
       ELSE IF Includes(filePath, <<"decision-trees">>) THEN "decision-trees"
       ELSE "general"

\* the title taken from the file name even when the document has a heading
TitleOf_BasenameOnly(file, content) == Basename(file, <<".md">>)

\* titleMatch ? titleMatch[1] : path.basename(file, ".md")
TitleOf(file, content) ==
    LET titleMatch == TitleMatch(content)
    IN IF titleMatch.found THEN titleMatch.group1 ELSE Basename(file, <<".md">>)

\* the record pushed for one file read during the catalog build
DocRecord(file, content) ==
    [path |-> file, category |-> getCategoryFromPath(file), title |-> TitleOf(file, content)]

-----------------------------------------------------------------------------
(* searchDocumentation: the matches of one file *)

LineAt(lines, i) == IF i \in 1..Len(lines) THEN lines[i] ELSE <<>>

\* [lines[index - 1] || "", line, lines[index + 1] || ""].filter(Boolean).join("\n")
Context(lines, i) ==
    Join(SelectSeq(<<LineAt(lines, i - 1), lines[i], LineAt(lines, i + 1)>>,
                   LAMBDA x : x # <<>>),
         <<"\n">>)

\* the test without query.toLowerCase(): line.toLowerCase().includes(query)
MatchingLines_QueryAsTyped(lines, query) ==
    SelectSeq([i \in 1..Len(lines) |-> i],
              LAMBDA i : Includes(ToLowerCase(lines[i]), query))

\* the indices of the lines for which line.toLowerCase().includes(queryLower)
MatchingLines(lines, query) ==
    LET queryLower == ToLowerCase(query)
    IN SelectSeq([i \in 1..Len(lines) |-> i],
                 LAMBDA i : Includes(ToLowerCase(lines[i]), queryLower))

\* the matches array after lines.forEach
AllMatches(content, query) ==
    LET lines == Split(content, "\n")
        hits == MatchingLines(lines, query)
    IN [k \in 1..Len(hits) |-> Context(lines, hits[k])]

\* matches.slice(0, 6): the cap off by one
LimitMatches_OffByOne(matches) == Slice0(matches, MaxMatches + 1)

\* matches.slice(0, 5)
LimitMatches(matches) == Slice0(matches, MaxMatches)

\* the loop body without its test matches.length > 0
PushResult_AlsoWithoutMatches(results, file, content, query) ==
    Append(results, [file |-> file.path, title |-> file.title,
                     matches |-> LimitMatches(AllMatches(content, query))])

\* results after the loop body for one file
PushResult(results, file, content, query) ==
    LET matches == AllMatches(content, query)
    IN IF Len(matches) > 0
       THEN Append(results, [file |-> file.path, title |-> file.title,
                             matches |-> LimitMatches(matches)])
       ELSE results

-----------------------------------------------------------------------------
(* Responses *)

Returned(kind, text, data) ==
    [st |-> "returned", kind |-> kind, text |-> text, data |-> data]
\* an exception that escapes the handler
Threw(kind, text) ==
    [st |-> "threw", kind |-> kind, text |-> text, data |-> <<>>]
NoResp == [st |-> "none", kind |-> "none", text |-> <<>>, data |-> <<>>]

\* the text of searchDocumentation's return value
SearchResponse(results, query) ==
    IF Len(results) > 0
    THEN Returned("found", <<"Found ", ToString(Len(results)), " files with matches:">>,
                  results)
    ELSE Returned("no-matches",
                  <<"No matches found for \"">> \o Interpolate(query) \o <<"\"">>, <<>>)

\* a resource named by the file name alone: memberstack://${path.basename(file.path)}
ResourceHandle_NameOnly(file) ==
    [uri |-> <<"memberstack://">> \o Basename(file.path, <<>>),
     name |-> file.title,
     description |-> <<IF file.category \in DOMAIN DOC_CATEGORIES
                       THEN DOC_CATEGORIES[file.category]
                       ELSE file.category>>,
     mimeType |-> "text/markdown"]

\* the resources of the ListResources response
ResourceHandle(file) ==
    [uri |-> <<"memberstack://">> \o file.path,
     name |-> file.title,
     description |-> <<IF file.category \in DOMAIN DOC_CATEGORIES
                       THEN DOC_CATEGORIES[file.category]
                       ELSE file.category, " - ">> \o file.title,
     mimeType |-> "text/markdown"]

ListResourcesResponse(files) ==
    Returned("resources", <<>>, [i \in 1..Len(files) |-> ResourceHandle(files[i])])

\* String.prototype.toUpperCase on a package name
UpperSym(c) ==
    CASE c = "dom" -> "DOM"
      [] c = "admin" -> "ADMIN"
      [] c = "rest" -> "REST"
      [] OTHER -> c

\* methodMappings[packageName]: the own keys, then what Object.prototype
\* supplies for any object literal, else undefined
MethodMapping(packageName) ==
    LET key == Interpolate(packageName)
    IN CASE key = <<"dom">> -> Str(DomRefRel)
         [] key = <<"admin">> -> Str(AdminRefRel)
         [] key = <<"rest">> -> Str(RestRefRel)
         [] key \in {<<"constructor">>, <<"toString">>, <<"valueOf">>,
                     <<"hasOwnProperty">>, <<"__proto__">>} -> Function
         [] OTHER -> Undefined

UnknownPackageResponse(packageName) ==
    Returned("unknown-package",
             <<"Unknown package: ">> \o Interpolate(packageName)
                 \o <<". Available packages: ", "dom", ", ", "admin", ", ", "rest">>,
             <<>>)

\* listMethods without its catch: the rejected read escapes the handler
ErrorReadingResponse_Rethrow(packageName) ==
    Threw("fs-error", <<"ENOENT: ">> \o Interpolate(packageName))

ErrorReadingResponse(packageName) ==
    Returned("error-reading",
             <<"Error reading ">> \o Interpolate(packageName) \o <<" documentation">>,
             <<>>)

\* the listing with every method once: methods collected into a Set
MethodsResponse_Distinct(packageName, content) ==
    LET all == ExtractMethods(content, 1)
        firsts == SelectSeq([i \in 1..Len(all) |-> i],
                            LAMBDA i : \A j \in 1..(i - 1) : all[j] # all[i])
    IN Returned("methods",
                <<"## ", UpperSym(Interpolate(packageName)[1]), " Package Methods">>,
                [k \in 1..Len(firsts) |-> all[firsts[k]]])

MethodsResponse(packageName, content) ==
    Returned("methods",
             <<"## ", UpperSym(Interpolate(packageName)[1]), " Package Methods">>,
             ExtractMethods(content, 1))

\* JSON.parse of the validation report: an object with the sections named
\* between the braces, or a SyntaxError
ParseReport(text) ==
    IF Len(text) >= 2 /\ text[1] = "{" /\ text[Len(text)] = "}"
    THEN [ok |-> TRUE, sections |-> {text[i] : i \in 2..(Len(text) - 1)}]
    ELSE [ok |-> FALSE, sections |-> {}]

\* methodCounts with "unknown" as the initial value of all three entries
MethodCounts_RestUnknown(rd) ==
    LET fallback == [dom |-> "unknown", admin |-> "unknown", rest |-> "unknown"]
        report == ParseReport(rd.text)
    IN IF ~rd.ok \/ ~report.ok \/ {"dom", "admin", "rest"} \ report.sections # {}
       THEN fallback
       ELSE [dom |-> "report", admin |-> "report", rest |-> "report"]

\* methodCounts after the try block: the three assignments run in order and
\* stop at the first section the report lacks
MethodCounts(rd) ==
    LET fallback == [dom |-> "unknown", admin |-> "unknown", rest |-> "13 endpoints"]
        report == ParseReport(rd.text)
    IN IF ~rd.ok \/ ~report.ok THEN fallback
       ELSE IF "dom" \notin report.sections THEN fallback
       ELSE LET c1 == [fallback EXCEPT !.dom = "report"]
            IN IF "admin" \notin report.sections THEN c1
               ELSE LET c2 == [c1 EXCEPT !.admin = "report"]
                    IN IF "rest" \notin report.sections THEN c2
                       ELSE [c2 EXCEPT !.rest = "report"]

InfoResponse(fileCount, rd) ==
    Returned("info", <<"# Memberstack MCP Server Documentation Info">>,
             [fileCount |-> fileCount, methodCounts |-> MethodCounts(rd)])

ReadResourceResponse(uri, filePath, rd) ==
    IF rd.ok
    THEN Returned("contents", <<>>,
                  [uri |-> uri, mimeType |-> "text/markdown", text |-> rd.text])
    ELSE Threw("could-not-read", <<"Could not read documentation file: ">> \o filePath)

-----------------------------------------------------------------------------
(* Requests *)

ReqIds == {"r1"}

Idle ==
    [pc |-> "idle", op |-> "none", name |-> "", query |-> Undefined,
     category |-> Undefined, package |-> Undefined, uri |-> <<>>,
     docFiles |-> <<>>, files |-> <<>>, i |-> 0, results |-> <<>>, resp |-> NoResp]

\* the arguments a client may send
Queries ==
    {Str(<<>>), Str(<<" ">>), Str(<<"a">>), Str(<<"A">>), Str(<<"b">>),
     Str(<<"zzz">>), Undefined, Num(<<"42">>)}
Categories ==
    {Undefined, Str(<<>>), Str(<<"dom-api">>), Str(<<"integration-patterns">>),
     Str(<<"decision-trees">>)}
Packages ==
    {Str(<<"dom">>), Str(<<"admin">>), Str(<<"rest">>), Str(<<"billing">>),
     Str(<<"constructor">>), Str(<<"toString">>), Undefined}
Scheme == <<"memberstack://">>
Uris ==
    {Scheme \o DomRefRel, Scheme \o GuideRel, Scheme \o ReportRel,
     Scheme \o <<"missing", ".md">>, GuideRel}
ToolNames ==
    {"search_memberstack_docs", "list_memberstack_methods",
     "get_documentation_info", "delete_everything"}

Done(rq, resp) == [rq EXCEPT !.pc = "done", !.resp = resp]

\* the search loop without its category test
PassesFilter_NoTest(file, category) == TRUE

\* the category test at the top of the search loop
PassesFilter(file, category) == ~(Truthy(category) /\ Str(<<file.category>>) # category)

\* the search loop from index from up to its next await: files failing the
\* category filter are skipped; with no file left the response is returned
ScanFrom(rq, from) ==
    LET cand == {j \in from..Len(rq.files) : PassesFilter(rq.files[j], rq.category)}
    IN IF cand = {}
       THEN Done(rq, SearchResponse(rq.results, rq.query))
       ELSE [rq EXCEPT !.pc = "scan",
                       !.i = CHOOSE j \in cand : \A k \in cand : j <= k]

\* what runs once getDocumentationFiles has returned
AfterCatalog(rq) ==
    CASE rq.op = "listResources" -> Done(rq, ListResourcesResponse(rq.files))
      [] rq.op = "getInfo" -> [rq EXCEPT !.pc = "report"]
      [] rq.op = "search" -> ScanFrom(rq, 1)

\* a handler that begins with getDocumentationFiles, up to await glob(...)
BeginCatalog(rq) == [rq EXCEPT !.pc = "glob"]

\* listMethods up to its await: the package lookup, and path.join inside try
BeginListMethods(rq) ==
    LET filePath == MethodMapping(rq.package)
    IN IF ~Truthy(filePath) THEN Done(rq, UnknownPackageResponse(rq.package))
       ELSE IF filePath.t # "string" THEN Done(rq, ErrorReadingResponse(rq.package))
       ELSE [rq EXCEPT !.pc = "methods"]

\* the dispatch without its final throw: an unknown name falls through to
\* the last tool
Dispatch_FallThrough(rq) ==
    IF rq.name = "search_memberstack_docs" THEN BeginCatalog([rq EXCEPT !.op = "search"])
    ELSE IF rq.name = "list_memberstack_methods"
    THEN BeginListMethods([rq EXCEPT !.op = "listMethods"])
    ELSE BeginCatalog([rq EXCEPT !.op = "getInfo"])

\* the CallTool handler's dispatch on the tool name
Dispatch(rq) ==
    IF rq.name = "search_memberstack_docs" THEN BeginCatalog([rq EXCEPT !.op = "search"])
    ELSE IF rq.name = "list_memberstack_methods"
    THEN BeginListMethods([rq EXCEPT !.op = "listMethods"])
    ELSE IF rq.name = "get_documentation_info"
    THEN BeginCatalog([rq EXCEPT !.op = "getInfo"])
    ELSE Done([rq EXCEPT !.op = "unknownTool"],
              Threw("unknown-tool", <<"Unknown tool: ", rq.name>>))

Free(r) == req[r].pc \in {"idle", "done"}

\* setupHandlers without the handler of the tool listing
SetupHandlers_NoListTools == {"resources/list", "resources/read", "tools/call"}

\* setupHandlers: the methods a handler is set for
SetupHandlers == {"resources/list", "resources/read", "tools/list", "tools/call"}

\* the server object before the program's first statement
NotBuilt == [pc |-> "start", handlers |-> {}, connected |-> FALSE]

\* the server object once run() has connected the transport
Running == [pc |-> "running", handlers |-> SetupHandlers, connected |-> TRUE]

\* a request of this method reaches a handler
Accepts(method) == server.connected /\ method \in server.handlers

\* the names in the tools array of the ListTools response
ToolList ==
    <<"search_memberstack_docs", "list_memberstack_methods", "get_documentation_info">>

ListToolsResponse == Returned("tools", <<>>, ToolList)

-----------------------------------------------------------------------------
(* The handlers as functions of the disk: each run from its first to its
   last statement with nothing happening in between *)

\* the loop of getDocumentationFiles from docFiles[i] on
RECURSIVE CatalogLoop(_, _, _, _)
CatalogLoop(disk, docFiles, i, files) ==
    IF i > Len(docFiles) THEN files
    ELSE LET rd == ReadFile(disk, PathJoin(DocsPath, docFiles[i]))
         IN IF ~rd.ok THEN files
            ELSE CatalogLoop(disk, docFiles, i + 1,
                             Append(files, DocRecord(docFiles[i], rd.text)))

\* getDocumentationFiles()
CatalogOf(disk) == CatalogLoop(disk, Glob(disk, DocsPath), 1, <<>>)

\* the loop of searchDocumentation from files[i] on
RECURSIVE SearchLoop(_, _, _, _, _, _)
SearchLoop(disk, files, i, results, query, category) ==
    IF i > Len(files) THEN SearchResponse(results, query)
    ELSE IF ~PassesFilter(files[i], category)
    THEN SearchLoop(disk, files, i + 1, results, query, category)
    ELSE LET rd == ReadFile(disk, PathJoin(DocsPath, files[i].path))
         IN IF ~rd.ok THEN Threw("fs-error", <<"ENOENT: ">> \o files[i].path)
            ELSE IF query.t # "string"
            THEN Threw("TypeError", <<"query.toLowerCase is not a function">>)
            ELSE SearchLoop(disk, files, i + 1,
                            PushResult(results, files[i], rd.text, query.v),
                            query, category)

\* searchDocumentation(query, category)
SearchAlone(disk, query, category) ==
    SearchLoop(disk, CatalogOf(disk), 1, <<>>, query, category)

\* listMethods(packageName)
ListMethodsAlone(disk, package) ==
    LET filePath == MethodMapping(package)
    IN IF ~Truthy(filePath) THEN UnknownPackageResponse(package)
       ELSE IF filePath.t # "string" THEN ErrorReadingResponse(package)
       ELSE LET rd == ReadFile(disk, PathJoin(DocsPath, filePath.v))
            IN IF rd.ok THEN MethodsResponse(package, rd.text)
               ELSE ErrorReadingResponse(package)

\* getDocumentationInfo()
InfoAlone(disk) ==
    InfoResponse(Len(CatalogOf(disk)), ReadFile(disk, PathJoin(DocsPath, ReportRel)))

\* the ReadResource handler
ReadResourceAlone(disk, uri) ==
    LET filePath == Replace(uri, <<"memberstack://">>, <<>>)
    IN ReadResourceResponse(uri, filePath, ReadFile(disk, PathJoin(DocsPath, filePath)))

\* the response to the request rq were it the only one, over disk
AnswerAlone(disk, rq) ==
    CASE rq.op = "listResources" -> ListResourcesResponse(CatalogOf(disk))
      [] rq.op = "readResource" -> ReadResourceAlone(disk, rq.uri)
      [] rq.op = "search" -> SearchAlone(disk, rq.query, rq.category)
      [] rq.op = "listMethods" -> ListMethodsAlone(disk, rq.package)
      [] rq.op = "getInfo" -> InfoAlone(disk)
      [] rq.op = "unknownTool" -> Threw("unknown-tool", <<"Unknown tool: ", rq.name>>)
      [] rq.op = "listTools" -> ListToolsResponse

\* what the client holds once the transport has sent rq's response
Received(rq, held) ==
    IF rq.pc = "done" /\ rq.resp.kind = "resources" THEN rq.resp.data ELSE held

-----------------------------------------------------------------------------
(* Actions *)

\* new MemberstackMCPServer(): the constructor ends with setupHandlers()
Construct ==
    /\ server.pc = "start"
    /\ server' = [server EXCEPT !.pc = "constructed", !.handlers = SetupHandlers]
    /\ UNCHANGED <<fs, req, handles>>

\* server.run(): the transport is connected
Run ==
    /\ server.pc = "constructed"
    /\ server' = [server EXCEPT !.pc = "running", !.connected = TRUE]
    /\ UNCHANGED <<fs, req, handles>>

\* a ListTools request arrives: the handler returns without an await
StartListTools(r) ==
    /\ Accepts("tools/list")
    /\ Free(r)
    /\ req' = [req EXCEPT ![r] = Done([Idle EXCEPT !.op = "listTools"], ListToolsResponse)]
    /\ UNCHANGED <<fs, handles, server>>

\* a ListResources request arrives
StartListResources(r) ==
    /\ Accepts("resources/list")
    /\ Free(r)
    /\ req' = [req EXCEPT ![r] = BeginCatalog([Idle EXCEPT !.op = "listResources"])]
    /\ UNCHANGED <<fs, handles, server>>

\* a ReadResource request arrives: the handler runs up to await fs.readFile
StartReadResource(r) ==
    /\ Accepts("resources/read")
    /\ Free(r)
    /\ \E uri \in Uris :
         req' = [req EXCEPT ![r] =
                    [Idle EXCEPT !.op = "readResource", !.uri = uri, !.pc = "read"]]
    /\ UNCHANGED <<fs, handles, server>>

\* a CallTool request arrives and the search starts from the results array
\* of the request before it, as if results were a field of the server
StartCallTool_SharedResults(r) ==
    /\ Accepts("tools/call")
    /\ Free(r)
    /\ \E name \in ToolNames :
         \E query \in (IF name = "search_memberstack_docs" THEN Queries ELSE {Undefined}) :
           \E category \in (IF name = "search_memberstack_docs"
                            THEN Categories ELSE {Undefined}) :
             \E package \in (IF name = "list_memberstack_methods"
                             THEN Packages ELSE {Undefined}) :
               req' = [req EXCEPT ![r] =
                          Dispatch([Idle EXCEPT !.name = name, !.query = query,
                                                !.category = category,
                                                !.package = package,
                                                !.results = req[r].results])]
    /\ UNCHANGED <<fs, handles, server>>

\* a CallTool request arrives
StartCallTool(r) ==
    /\ Accepts("tools/call")
    /\ Free(r)
    /\ \E name \in ToolNames :
         \E query \in (IF name = "search_memberstack_docs" THEN Queries ELSE {Undefined}) :
           \E category \in (IF name = "search_memberstack_docs"
                            THEN Categories ELSE {Undefined}) :
             \E package \in (IF name = "list_memberstack_methods"
                             THEN Packages ELSE {Undefined}) :
               req' = [req EXCEPT ![r] =
                          Dispatch([Idle EXCEPT !.name = name, !.query = query,
                                                !.category = category,
                                                !.package = package])]
    /\ UNCHANGED <<fs, handles, server>>

\* await glob("**/*.md") resolves
GlobStep(r) ==
    /\ req[r].pc = "glob"
    /\ LET docFiles == Glob(fs, DocsPath)
           rq == [req[r] EXCEPT !.docFiles = docFiles, !.files = <<>>]
       IN req' = [req EXCEPT ![r] =
                     IF docFiles = <<>> THEN AfterCatalog(rq)
                     ELSE [rq EXCEPT !.pc = "catalog", !.i = 1]]
    /\ handles' = Received(req'[r], handles)
    /\ UNCHANGED <<fs, server>>

\* the catalog loop never leaves its first two files: the read of the second
\* file starts the loop again from the first
CatalogRead_Restarts(r) ==
    /\ req[r].pc = "catalog"
    /\ LET rq == req[r]
           file == rq.docFiles[rq.i]
           rd == ReadFile(fs, PathJoin(DocsPath, file))
           pushed == [rq EXCEPT !.files = Append(rq.files, DocRecord(file, rd.text))]
       IN req' = [req EXCEPT ![r] =
                     IF ~rd.ok THEN AfterCatalog(rq)
                     ELSE IF rq.i = Len(rq.docFiles) THEN AfterCatalog(pushed)
                     ELSE IF rq.i = 2 THEN [rq EXCEPT !.i = 1, !.files = <<>>]
                     ELSE [pushed EXCEPT !.i = rq.i + 1]]
    /\ handles' = Received(req'[r], handles)
    /\ UNCHANGED <<fs, server>>

\* one await fs.readFile of the catalog loop settles: the record is pushed,
\* or the rejection leaves the loop for the catch around it
CatalogRead(r) ==
    /\ req[r].pc = "catalog"
    /\ LET rq == req[r]
           file == rq.docFiles[rq.i]
           rd == ReadFile(fs, PathJoin(DocsPath, file))
           pushed == [rq EXCEPT !.files = Append(rq.files, DocRecord(file, rd.text))]
       IN req' = [req EXCEPT ![r] =
                     IF ~rd.ok THEN AfterCatalog(rq)
                     ELSE IF rq.i = Len(rq.docFiles) THEN AfterCatalog(pushed)
                     ELSE [pushed EXCEPT !.i = rq.i + 1]]
    /\ handles' = Received(req'[r], handles)
    /\ UNCHANGED <<fs, server>>

\* one await fs.readFile of the search loop settles and the result is pushed
\* onto the array of the first request slot, as if results were a field
\* shared by the calls
SearchRead_SharedResults(r) ==
    /\ req[r].pc = "scan"
    /\ LET rq == req[r]
           file == rq.files[rq.i]
           rd == ReadFile(fs, PathJoin(DocsPath, file.path))
       IN req' = [req EXCEPT ![r] =
                     IF ~rd.ok
                     THEN Done(rq, Threw("fs-error", <<"ENOENT: ">> \o file.path))
                     ELSE IF rq.query.t # "string"
                     THEN Done(rq, Threw("TypeError",
                                         <<"query.toLowerCase is not a function">>))
                     ELSE ScanFrom([rq EXCEPT !.results =
                                       PushResult(req["r1"].results, file, rd.text,
                                                  rq.query.v)],
                                   rq.i + 1)]
    /\ UNCHANGED <<fs, handles, server>>

\* one await fs.readFile of the search loop settles
SearchRead(r) ==
    /\ req[r].pc = "scan"
    /\ LET rq == req[r]
           file == rq.files[rq.i]
           rd == ReadFile(fs, PathJoin(DocsPath, file.path))
       IN req' = [req EXCEPT ![r] =
                     IF ~rd.ok
                     THEN Done(rq, Threw("fs-error", <<"ENOENT: ">> \o file.path))
                     ELSE IF rq.query.t # "string"
                     THEN Done(rq, Threw("TypeError",
                                         <<"query.toLowerCase is not a function">>))
                     ELSE ScanFrom([rq EXCEPT !.results =
                                       PushResult(rq.results, file, rd.text, rq.query.v)],
                                   rq.i + 1)]
    /\ UNCHANGED <<fs, handles, server>>

\* the ReadResource handler reads the file and removes it afterwards
ResourceRead_Consumes(r) ==
    /\ req[r].pc = "read"
    /\ LET rq == req[r]
           filePath == Replace(rq.uri, <<"memberstack://">>, <<>>)
           abs == PathJoin(DocsPath, filePath)
           rd == ReadFile(fs, abs)
       IN /\ req' = [req EXCEPT ![r] = Done(rq, ReadResourceResponse(rq.uri, filePath, rd))]
          /\ fs' = IF rd.ok THEN [fs EXCEPT ![abs] = Absent] ELSE fs
    /\ UNCHANGED <<handles, server>>

\* the await fs.readFile of the ReadResource handler settles
ResourceRead(r) ==
    /\ req[r].pc = "read"
    /\ LET rq == req[r]
           filePath == Replace(rq.uri, <<"memberstack://">>, <<>>)
           rd == ReadFile(fs, PathJoin(DocsPath, filePath))
       IN req' = [req EXCEPT ![r] = Done(rq, ReadResourceResponse(rq.uri, filePath, rd))]
    /\ UNCHANGED <<fs, handles, server>>

\* the await fs.readFile of listMethods settles
MethodsRead(r) ==
    /\ req[r].pc = "methods"
    /\ LET rq == req[r]
           rd == ReadFile(fs, PathJoin(DocsPath, MethodMapping(rq.package).v))
       IN req' = [req EXCEPT ![r] =
                     Done(rq, IF rd.ok THEN MethodsResponse(rq.package, rd.text)
                              ELSE ErrorReadingResponse(rq.package))]
    /\ UNCHANGED <<fs, handles, server>>

\* the await fs.readFile of the validation report in getDocumentationInfo settles
ReportRead(r) ==
    /\ req[r].pc = "report"
    /\ LET rq == req[r]
           rd == ReadFile(fs, PathJoin(DocsPath, ReportRel))
       IN req' = [req EXCEPT ![r] = Done(rq, InfoResponse(Len(rq.files), rd))]
    /\ UNCHANGED <<fs, handles, server>>

\* the environment creates, removes, replaces or protects a file
FsChange ==
    /\ \E p \in FsPaths : \E st \in FileStates(p) :
         /\ st # fs[p]
         /\ fs' = [fs EXCEPT ![p] = st]
    /\ UNCHANGED <<req, handles, server>>

\* the environment removes the docs directory once it is empty, creates it,
\* or changes whether it may be listed
RootChange ==
    /\ \E st \in {Directory, Absent, Unreadable} :
         /\ st # fs[DocsPath]
         /\ st = Absent =>
              \A p \in FsPaths : StartsWith(p, DocsPath \o <<"/">>) => fs[p] = Absent
         /\ fs' = [fs EXCEPT ![DocsPath] = st]
    /\ UNCHANGED <<req, handles, server>>

\* the small disks, the docs directory in place
SmallDisks ==
    {(DocsPath :> Directory) @@ f :
       f \in {g \in [FsPaths -> {Absent, Unreadable, File(BigDoc), File(GuideDoc),
                                  File(ReportBroken), File(ReportFull)}] :
                 \A p \in FsPaths : g[p] \in FileStates(p)}}

Init ==
    /\ fs \in SmallDisks
    /\ req = [r \in ReqIds |-> Idle]
    /\ handles = <<>>
    /\ server = Running

\* the handlers' steps
Serve ==
    \/ \E r \in ReqIds : StartListTools(r)
    \/ \E r \in ReqIds : StartListResources(r)
    \/ \E r \in ReqIds : StartReadResource(r)
    \/ \E r \in ReqIds : StartCallTool(r)
    \/ \E r \in ReqIds : GlobStep(r)
    \/ \E r \in ReqIds : CatalogRead(r)
    \/ \E r \in ReqIds : SearchRead(r)
    \/ \E r \in ReqIds : ResourceRead(r)
    \/ \E r \in ReqIds : MethodsRead(r)
    \/ \E r \in ReqIds : ReportRead(r)

Next == Serve \/ FsChange

Spec == Init /\ [][Next]_vars

\* the server over a corpus nobody changes while it runs
SpecStatic == Init /\ [][Serve]_vars

\* the awaits of request r: each promise the handler waits for settles
Settle(r) ==
    \/ GlobStep(r)
    \/ CatalogRead(r)
    \/ SearchRead(r)
    \/ ResourceRead(r)
    \/ MethodsRead(r)
    \/ ReportRead(r)


\* the disk changes only between requests
QuietFsChange ==
    /\ \A r \in ReqIds : Free(r)
    /\ FsChange

\* the server answering one request after the other over a disk that is
\* changed between them
SpecQuiet == Init /\ [][Serve \/ QuietFsChange]_vars

\* two requests in flight at once: the transport hands a second request to
\* its handler while the first waits at an await
ConcIds == {"r1", "r2"}

ServeConc ==
    \/ \E r \in ConcIds : StartListTools(r)
    \/ \E r \in ConcIds : StartListResources(r)
    \/ \E r \in ConcIds : StartReadResource(r)
    \/ \E r \in ConcIds : StartCallTool(r)
    \/ \E r \in ConcIds : GlobStep(r)
    \/ \E r \in ConcIds : CatalogRead(r)
    \/ \E r \in ConcIds : SearchRead(r)
    \/ \E r \in ConcIds : ResourceRead(r)
    \/ \E r \in ConcIds : MethodsRead(r)
    \/ \E r \in ConcIds : ReportRead(r)

\* a disk with two documents and the report
ConcDisk ==
    (DocsPath :> Directory) @@ (DomRefAbs :> File(SmallDoc))
    @@ (GuideAbs :> File(GuideDoc)) @@ (ReportAbs :> File(ReportFull))

InitConc ==
    /\ fs = ConcDisk
    /\ req = [r \in ConcIds |-> Idle]
    /\ handles = <<>>
    /\ server = Running

\* the server with up to two requests in flight over an unchanged corpus
SpecConc == InitConc /\ [][ServeConc]_vars

\* the environment writes, replaces, removes or protects the validation report
ReportChange ==
    /\ \E st \in ReportStates :
         /\ st # fs[ReportAbs]
         /\ fs' = [fs EXCEPT ![ReportAbs] = st]
    /\ UNCHANGED <<req, handles, server>>

InitReport ==
    /\ fs \in {[ConcDisk EXCEPT ![ReportAbs] = st] : st \in ReportStates}
    /\ req = [r \in ReqIds |-> Idle]
    /\ handles = <<>>
    /\ server = Running

\* the server over two documents while the validation report comes and goes
SpecReport == InitReport /\ [][Serve \/ ReportChange]_vars

\* the program from its first statement: the server is constructed, then
\* run, then it serves
InitBoot ==
    /\ fs = ConcDisk
    /\ req = [r \in ReqIds |-> Idle]
    /\ handles = <<>>
    /\ server = NotBuilt

SpecBoot == InitBoot /\ [][Construct \/ Run \/ Serve]_vars

\* the server over the larger tree, unchanged while it runs
InitWide ==
    /\ fs = WideDisk
    /\ req = [r \in ReqIds |-> Idle]
    /\ handles = <<>>
    /\ server = Running

SpecWide == InitWide /\ [][Serve]_vars

\* the server over the larger tree, unchanged, node's event loop running:
\* the promise a handler waits for settles in the end. Settle(r) can be taken
\* exactly while request r is being handled, so the last conjunct states weak
\* fairness of Settle(r) with that condition written out
SpecLive ==
    /\ InitWide
    /\ [][Serve]_vars
    /\ \A r \in ReqIds :
         /\ WF_vars(GlobStep(r))
         /\ WF_vars(ReportRead(r))
         /\ ([]<>(req[r].pc \in {"idle", "done"})) \/ ([]<><<Settle(r)>>_vars)

\* the server while the docs directory itself comes and goes: the documents
\* are all there or all missing, the directory is in place, missing (when
\* nothing is in it) or not listable
InitRoot ==
    /\ fs \in {[d EXCEPT ![DocsPath] = st] :
                d \in {x \in SmallDisks :
                         /\ x[ReportAbs] = File(ReportFull)
                         /\ \/ x[DomRefAbs] = File(BigDoc) /\ x[GuideAbs] = File(GuideDoc)
                            \/ x[DomRefAbs] = Absent /\ x[GuideAbs] = Absent},
                st \in {Directory, Absent, Unreadable}}
    /\ fs[DocsPath] = Absent => fs[DomRefAbs] = Absent
    /\ req = [r \in ReqIds |-> Idle]
    /\ handles = <<>>
    /\ server = Running

SpecRoot == InitRoot /\ [][Serve \/ RootChange]_vars

-----------------------------------------------------------------------------
(* Properties *)

\* the step of request r that settles one read of the search loop
SearchReadStep(r) == req[r].pc = "scan" /\ req'[r] # req[r]

\* the context windows of the first n matching lines of content, top to bottom
FirstWindows(content, query, n) ==
    LET lines == Split(content, "\n")
        hits == MatchingLines(lines, query)
    IN [k \in 1..Min(n, Len(hits)) |-> Context(lines, hits[k])]

\* C1: every document of a search result carries at most 5 context windows;
\* a document read with more than 5 matching lines carries exactly 5, the
\* windows of its first 5 matching lines in top-to-bottom order, whatever
\* the other documents of the result carry (the cap is per document).
C1_PerDocumentCap ==
    [][\A r \in ReqIds :
         /\ \A k \in 1..Len(req'[r].results) :
              Len(req'[r].results[k].matches) \in 1..MaxMatches
         /\ SearchReadStep(r) =>
              LET file == req[r].files[req[r].i]
                  rd == ReadFile(fs, PathJoin(DocsPath, file.path))
                  lines == Split(rd.text, "\n")
                  hits == IF req[r].query.t = "string"
                          THEN Len(MatchingLines(lines, req[r].query.v)) ELSE 0
              IN (rd.ok /\ hits > 0) =>
                   /\ Len(req'[r].results) = Len(req[r].results) + 1
                   /\ SubSeq(req'[r].results, 1, Len(req[r].results)) = req[r].results
                   /\ LET last == req'[r].results[Len(req'[r].results)]
                      IN /\ last.file = file.path
                         /\ last.matches = FirstWindows(rd.text, req[r].query.v, MaxMatches)
                         /\ hits > MaxMatches => Len(last.matches) = MaxMatches
    ]_vars

\* C1 witness: a search for "a" has answered with two documents, the first
\* with MaxHits > 5 matching lines on disk and exactly 5 windows, the second
\* with windows of its own, more than 5 windows in all
C1_Witness ==
    \E r \in ReqIds :
      /\ req[r].pc = "done"
      /\ req[r].op = "search"
      /\ req[r].query = Str(<<"a">>)
      /\ req[r].resp.kind = "found"
      /\ Len(req[r].resp.data) = 2
      /\ fs[DomRefAbs] = File(BigDoc)
      /\ Len(MatchingLines(Split(BigDoc, "\n"), <<"a">>)) = MaxHits
      /\ MaxHits > MaxMatches
      /\ req[r].resp.data[1].file = DomRefRel
      /\ Len(req[r].resp.data[1].matches) = MaxMatches
      /\ Len(req[r].resp.data[2].matches) = 2

\* a query that is the empty string or only white space
IsBlank(q) == q.t = "string" /\ \A i \in 1..Len(q.v) : IsSpace(q.v[i])

\* C2: a search with an empty or whitespace-only query answers with the
\* explicit no-matches response, whatever the corpus.
C2_BlankQueryNoMatches ==
    \A r \in ReqIds :
      (/\ req[r].pc = "done"
       /\ req[r].op = "search"
       /\ IsBlank(req[r].query)
       /\ req[r].resp.st = "returned")
      => req[r].resp.kind = "no-matches"

\* the documents a catalog build over disk can list: the readable entries
\* that glob finds under the docs root
CatalogDocs(disk) ==
    LET found == Glob(disk, DocsPath)
    IN {found[i] : i \in {j \in 1..Len(found) :
                            ReadFile(disk, PathJoin(DocsPath, found[j])).ok}}

\* the step of request r that settles the read of the ReadResource handler
ResourceReadStep(r) == req[r].pc = "read" /\ req'[r].pc = "done"

\* C3: readResource returns content only for an identifier that, with or
\* without the scheme, is the relative path of a document of the current
\* catalog; for any other identifier it answers with an error whose message
\* names the identifier.
C3_ContentOnlyForCatalogDocuments ==
    [][\A r \in ReqIds :
         ResourceReadStep(r) =>
           LET uri == req[r].uri
               resp == req'[r].resp
           IN Replace(uri, Scheme, <<>>) \notin CatalogDocs(fs) =>
                /\ resp.kind # "contents"
                /\ \/ Includes(resp.text, uri)
                   \/ Includes(resp.text, Replace(uri, Scheme, <<>>))
    ]_vars

ValidPackages == {<<"dom">>, <<"admin">>, <<"rest">>}
IsValidPackage(p) == p.t = "string" /\ p.v \in ValidPackages

\* C4: for every package argument outside {dom, admin, rest}, a missing one
\* included, listMethods returns the validation message that enumerates dom,
\* admin and rest, and never starts a file read.
C4_InvalidPackageValidation ==
    \A r \in ReqIds :
      (req[r].op = "listMethods" /\ ~IsValidPackage(req[r].package)) =>
        /\ req[r].pc # "methods"
        /\ req[r].pc = "done" =>
             /\ req[r].resp.st = "returned"
             /\ req[r].resp.kind = "unknown-package"
             /\ \A p \in ValidPackages : Includes(req[r].resp.text, p)

\* the step of request r that settles the read of listMethods while the
\* package's reference document is not on the disk
MethodsReadAbsentStep(r) ==
    /\ req[r].pc = "methods"
    /\ req'[r].pc = "done"
    /\ LET p == PathJoin(DocsPath, MethodMapping(req[r].package).v)
       IN p \notin DOMAIN fs \/ fs[p] = Absent

\* C5 as stated: with the reference document of a valid package absent,
\* listMethods returns the normal listing with no signatures.
C5_AbsentReferenceEmptyListing ==
    [][\A r \in ReqIds :
         MethodsReadAbsentStep(r) =>
           /\ req'[r].resp.st = "returned"
           /\ req'[r].resp.kind = "methods"
           /\ req'[r].resp.data = <<>>
    ]_vars

\* C5 amended: with the reference document of a valid package absent,
\* listMethods returns, as an ordinary text response and without raising,
\* the message "Error reading <package> documentation" and no listing.
C5_AbsentReferenceErrorText ==
    [][\A r \in ReqIds :
         MethodsReadAbsentStep(r) =>
           /\ IsValidPackage(req[r].package)
           /\ req'[r].resp.st = "returned"
           /\ req'[r].resp.kind # "methods"
           /\ req'[r].resp.text =
                <<"Error reading ", req[r].package.v[1], " documentation">>
    ]_vars

\* C5 witness: listMethods("dom") has answered while the DOM reference is
\* absent from the disk
C5_Witness ==
    \E r \in ReqIds :
      /\ req[r].pc = "done"
      /\ req[r].op = "listMethods"
      /\ req[r].package = Str(<<"dom">>)
      /\ fs[DomRefAbs] = Absent
      /\ req[r].resp.st = "returned"
      /\ req[r].resp.kind = "error-reading"

\* the step of request r with which getDocumentationFiles returns
CatalogReturnStep(r) ==
    /\ req[r].pc \in {"glob", "catalog"}
    /\ req'[r].pc \notin {"glob", "catalog"}

\* C6: a catalog build returns every readable document that glob listed, also
\* those listed after a file whose read failed.
C6_ReadFailureSkipsOneFile ==
    [][\A r \in ReqIds :
         CatalogReturnStep(r) =>
           \A j \in 1..Len(req'[r].docFiles) :
             ReadFile(fs, PathJoin(DocsPath, req'[r].docFiles[j])).ok =>
               \E k \in 1..Len(req'[r].files) :
                 req'[r].files[k].path = req'[r].docFiles[j]
    ]_vars

\* the handles the client holds whose identifier is the one request r reads
HandlesOf(r) == {k \in 1..Len(handles) : handles[k].uri = req[r].uri}

\* the relative path a handle's identifier carries after the scheme
HandlePath(h) == SubSeq(h.uri, Len(Scheme) + 1, Len(h.uri))

C8_SearchAlwaysAnswersText ==
    \A r \in ReqIds :
      (req[r].pc = "done" /\ req[r].op = "search" /\ req[r].query.t = "string")
      => req[r].resp.st = "returned"

ValidToolNames ==
    {"search_memberstack_docs", "list_memberstack_methods", "get_documentation_info"}

\* a CallTool request for a name that is no tool has been answered
UnknownToolDone(r) ==
    /\ req[r].pc = "done"
    /\ req[r].name # ""
    /\ req[r].name \notin ValidToolNames

C10_MissingQueryValidation ==
    \A r \in ReqIds :
      (/\ req[r].pc = "done"
       /\ req[r].name = "search_memberstack_docs"
       /\ req[r].query.t # "string")
      => /\ req[r].resp.st = "returned"
         /\ req[r].resp.kind \notin {"found", "no-matches"}

\* the window the search is to build around line i: the preceding line when
\* there is one, the line, the following line when there is one
Window(lines, i) ==
    Join((IF i > 1 THEN <<lines[i - 1]>> ELSE <<>>)
         \o <<lines[i]>>
         \o (IF i < Len(lines) THEN <<lines[i + 1]>> ELSE <<>>),
         <<"\n">>)

\* C11: every context window of a search result is the preceding line when
\* one exists, the matching line, and the following line when one exists,
\* in that order, joined by line breaks; a neighbouring line is part of the
\* window also when it is blank.
C11_WindowKeepsBlankNeighbours ==
    [][\A r \in ReqIds :
         SearchReadStep(r) =>
           LET file == req[r].files[req[r].i]
               rd == ReadFile(fs, PathJoin(DocsPath, file.path))
               lines == Split(rd.text, "\n")
               hits == IF req[r].query.t = "string" /\ ~IsBlank(req[r].query)
                       THEN MatchingLines(lines, req[r].query.v) ELSE <<>>
           IN (rd.ok /\ Len(hits) > 0) =>
                LET last == req'[r].results[Len(req'[r].results)]
                IN \A k \in 1..Len(last.matches) :
                     last.matches[k] = Window(lines, hits[k])
    ]_vars

\* two texts that differ at most in the case of their letters
SameUpToCase(a, b) ==
    /\ Len(a) = Len(b)
    /\ \A i \in 1..Len(a) : a[i] = b[i] \/ LowerSym(a[i]) = b[i] \/ a[i] = LowerSym(b[i])

\* C12: the search is case-insensitive: for two queries that differ only in
\* letter case, a read of the search loop adds the same document with the
\* same windows, so both queries return the same documents with the same
\* number of windows each.
C12_CaseInsensitive ==
    [][\A r \in ReqIds :
         (SearchReadStep(r) /\ req[r].query.t = "string") =>
           LET file == req[r].files[req[r].i]
               rd == ReadFile(fs, PathJoin(DocsPath, file.path))
           IN rd.ok =>
                \A q2 \in {q \in Queries : q.t = "string"} :
                  SameUpToCase(req[r].query.v, q2.v) =>
                    req'[r].results =
                      PushResult(req[r].results, file, rd.text, q2.v)
    ]_vars

\* C12 witness: a search for "A" has answered with both documents, the guide
\* with its two lines holding "A" and "a", the reference with five of its
\* lines holding "a"
C12_Witness ==
    \E r \in ReqIds :
      /\ req[r].pc = "done"
      /\ req[r].op = "search"
      /\ req[r].query = Str(<<"A">>)
      /\ req[r].resp.kind = "found"
      /\ Len(req[r].resp.data) = 2
      /\ Len(req[r].resp.data[1].matches) = MaxMatches
      /\ Len(req[r].resp.data[2].matches) = 2

\* the step of request r that answers a search
SearchAnswerStep(r) ==
    /\ req[r].pc \in {"glob", "catalog", "scan"}
    /\ req'[r].pc = "done"
    /\ req'[r].op = "search"

\* some line of content contains the query, letter case aside
HasMatchingLine(content, query) ==
    LET lines == Split(content, "\n")
    IN \E i \in 1..Len(lines) : Includes(ToLowerCase(lines[i]), ToLowerCase(query))

\* the paths of the documents of a search result, in result order
ResultPaths(results) == [k \in 1..Len(results) |-> results[k].file]

\* C13: over an unchanged corpus a document of the catalog appears in a
\* search result if and only if it passes the category filter and at least
\* one of its lines contains the query; a document with no matching line
\* never appears; the documents keep the catalog's order; and the number in
\* "Found N files" is the number of documents returned.
C13_ResultIsFilteredCatalog ==
    [][\A r \in ReqIds :
         (SearchAnswerStep(r) /\ req'[r].query.t = "string") =>
           LET q == req'[r].query.v
               category == req'[r].category
               expected ==
                   SelectSeq(req'[r].files, LAMBDA f :
                       /\ ~Truthy(category) \/ category = Str(<<f.category>>)
                       /\ HasMatchingLine(ReadFile(fs, PathJoin(DocsPath, f.path)).text, q))
               resp == req'[r].resp
           IN /\ resp.st = "returned"
              /\ ResultPaths(resp.data) = [k \in 1..Len(expected) |-> expected[k].path]
              /\ (resp.kind = "found") = (Len(expected) > 0)
              /\ resp.kind = "found" =>
                   resp.text = <<"Found ", ToString(Len(resp.data)), " files with matches:">>
    ]_vars

\* C13 witness: a search for "b" over a catalog of two documents has
\* answered with the guide only; the reference, first in the catalog, has no
\* line containing "b"
C13_Witness ==
    \E r \in ReqIds :
      /\ req[r].pc = "done"
      /\ req[r].op = "search"
      /\ req[r].query = Str(<<"b">>)
      /\ req[r].category = Undefined
      /\ Len(req[r].files) = 2
      /\ req[r].files[1].path = DomRefRel
      /\ ~HasMatchingLine(BigDoc, <<"b">>)
      /\ req[r].resp.kind = "found"
      /\ ResultPaths(req[r].resp.data) = <<GuideRel>>
      /\ req[r].resp.text = <<"Found ", "1", " files with matches:">>

\* C14: when a category filter is given, every document of the search
\* result has exactly that category; when none is given (the argument is
\* missing or empty), no document of the catalog is passed over: the search
\* loop reads the documents of all categories, general included, one after
\* the other.
C14_CategoryFilter ==
    [][\A r \in ReqIds :
         req'[r].op = "search" =>
           LET category == req'[r].category
           IN /\ Truthy(category) =>
                   \A k \in 1..Len(req'[r].results) :
                     \E j \in 1..Len(req'[r].files) :
                       /\ req'[r].files[j].path = req'[r].results[k].file
                       /\ Str(<<req'[r].files[j].category>>) = category
              /\ (~Truthy(category) /\ req'[r] # req[r]) =>
                   /\ (req[r].pc \in {"glob", "catalog"} /\ req'[r].pc = "scan") =>
                        req'[r].i = 1
                   /\ (req[r].pc \in {"glob", "catalog"} /\ req'[r].pc = "done") =>
                        req'[r].files = <<>>
                   /\ (req[r].pc = "scan" /\ req'[r].pc = "scan") =>
                        req'[r].i = req[r].i + 1
                   /\ (req[r].pc = "scan" /\ req'[r].pc = "done"
                         /\ req'[r].resp.st = "returned") =>
                        req[r].i = Len(req[r].files)
    ]_vars

\* C14 witness: a search for "a" filtered to dom-api has answered with the
\* reference only, although the guide, of category general, is in the
\* catalog and has lines containing "a"
C14_Witness ==
    \E r \in ReqIds :
      /\ req[r].pc = "done"
      /\ req[r].op = "search"
      /\ req[r].query = Str(<<"a">>)
      /\ req[r].category = Str(<<"dom-api">>)
      /\ Len(req[r].files) = 2
      /\ req[r].files[2].category = "general"
      /\ fs[GuideAbs] = File(GuideDoc)
      /\ HasMatchingLine(GuideDoc, <<"a">>)
      /\ req[r].resp.kind = "found"
      /\ ResultPaths(req[r].resp.data) = <<DomRefRel>>

\* the step of request r that answers listMethods after its read
MethodsReadStep(r) == req[r].pc = "methods" /\ req'[r].pc = "done"

\* the positions of the backticks of a line
TicksOf(line) == SelectSeq([i \in 1..Len(line) |-> i], LAMBDA i : line[i] = Tick)

\* a level-3 heading whose text begins with one code span: "###", blanks,
\* a token between two backticks and no further backtick
IsMethodHeading(line) ==
    /\ StartsWith(line, <<"#", "#", "#", " ">>)
    /\ Len(TicksOf(line)) = 2
    /\ TicksOf(line)[2] > TicksOf(line)[1] + 1
    /\ \A j \in 4..(TicksOf(line)[1] - 1) : line[j] = " "

HeadingToken(line) == SubSeq(line, TicksOf(line)[1] + 1, TicksOf(line)[2] - 1)

\* the tokens of the method headings of a document, top to bottom
HeadingTokens(content) ==
    LET lines == Split(content, "\n")
        at == SelectSeq([i \in 1..Len(lines) |-> i], LAMBDA i : IsMethodHeading(lines[i]))
    IN [k \in 1..Len(at) |-> HeadingToken(lines[at[k]])]

\* C15: listMethods returns the tokens of the level-3 code-span headings of
\* the package's reference document in document order, duplicates kept: a
\* document with the headings login(), logout() and login() again yields
\* those three tokens in that order.
C15_MethodsInDocumentOrder ==
    [][\A r \in ReqIds :
         MethodsReadStep(r) =>
           LET rd == ReadFile(fs, PathJoin(DocsPath, MethodMapping(req[r].package).v))
           IN rd.ok =>
                /\ req'[r].resp.st = "returned"
                /\ req'[r].resp.kind = "methods"
                /\ req'[r].resp.data = HeadingTokens(rd.text)
    ]_vars

\* C15 witness: listMethods for dom has answered login(), logout(), login()
\* from a reference that also has a level-2 heading with a code span
C15_Witness ==
    \E r \in ReqIds :
      /\ req[r].pc = "done"
      /\ req[r].op = "listMethods"
      /\ req[r].package = Str(<<"dom">>)
      /\ req[r].resp.kind = "methods"
      /\ req[r].resp.data = << <<"login", "(", ")">>, <<"logout", "(", ")">>,
                               <<"login", "(", ")">> >>
      /\ Includes(BigDoc, <<"#", "#", " ", Tick, "setup", Tick>>)

\* the rules of the categorizer in their order: a text the path must
\* contain, or the name the file must have without its .md
CategoryRules ==
    <<[on |-> "path", pat |-> <<"dom-package">>, tag |-> "dom-api"],
      [on |-> "path", pat |-> <<"admin-package">>, tag |-> "admin-api"],
      [on |-> "path", pat |-> <<"rest-api">>, tag |-> "rest-api"],
      [on |-> "name", pat |-> <<"authentication-flows">>, tag |-> "authentication"],
      [on |-> "name", pat |-> <<"quick-start">>, tag |-> "quick-start"],
      [on |-> "name", pat |-> <<"error-handling-guide">>, tag |-> "error-handling"],
      [on |-> "path", pat |-> <<"integration-patterns">>, tag |-> "integration-patterns"],
      [on |-> "path", pat |-> <<"decision-trees">>, tag |-> "decision-trees"]>>

CategoryTags == {CategoryRules[k].tag : k \in 1..Len(CategoryRules)} \cup {"general"}

RuleApplies(rule, p) ==
    IF rule.on = "path" THEN Includes(p, rule.pat)
    ELSE Basename(p, <<".md">>) = rule.pat

\* the tag of the first rule that applies to p, general when none does
FirstRuleTag(p) ==
    LET hits == {k \in 1..Len(CategoryRules) : RuleApplies(CategoryRules[k], p)}
    IN IF hits = {} THEN "general"
       ELSE CategoryRules[CHOOSE k \in hits : \A j \in hits : k <= j].tag

\* C16: the categorizer is total and deterministic: every record of a
\* catalog carries exactly one tag of the fixed category set, the tag of the
\* first rule, in the fixed rule order, that applies to its relative path,
\* and general when no rule applies.
C16_CategorizerFirstRule ==
    \A r \in ReqIds :
      \A k \in 1..Len(req[r].files) :
        /\ req[r].files[k].category \in CategoryTags
        /\ req[r].files[k].category = FirstRuleTag(req[r].files[k].path)
        /\ req[r].files[k].category = getCategoryFromPath(req[r].files[k].path)

\* C16 witness: a catalog of the larger tree is complete; its records carry
\* every tag of the set, the patterns document under dom-package is dom-api
\* and quick-start/intro.md is general
C16_Witness ==
    \E r \in ReqIds :
      /\ Len(req[r].files) = Len(WideRels)
      /\ {req[r].files[k].category : k \in 1..Len(req[r].files)} = CategoryTags
      /\ \E k \in 1..Len(req[r].files) :
           /\ req[r].files[k].path = <<"dom-package", "/", "dom-", "integration-patterns", ".md">>
           /\ req[r].files[k].category = "dom-api"
      /\ \E k \in 1..Len(req[r].files) :
           /\ req[r].files[k].path = <<"quick-start", "/", "intro", ".md">>
           /\ req[r].files[k].category = "general"

\* the step of request r at which await glob(...) settles
GlobSettles(r) == req[r].pc = "glob" /\ req'[r] # req[r]

\* C17: when the root directory does not exist or cannot be read, the
\* catalog is the empty sequence and nothing is thrown: a search returns the
\* explicit no-matches response, listResources returns no handles, and
\* getInfo goes on to report the number of catalog records, 0.
C17_MissingRootEmptyCatalog ==
    [][\A r \in ReqIds :
         /\ (GlobSettles(r) /\ fs[DocsPath].st # "dir") =>
              /\ req'[r].files = <<>>
              /\ req[r].op = "search" =>
                   /\ req'[r].pc = "done"
                   /\ req'[r].resp.st = "returned"
                   /\ req'[r].resp.kind = "no-matches"
              /\ req[r].op = "listResources" =>
                   /\ req'[r].pc = "done"
                   /\ req'[r].resp.st = "returned"
                   /\ req'[r].resp.data = <<>>
              /\ req[r].op = "getInfo" => req'[r].pc = "report"
         /\ (req[r].pc = "report" /\ req'[r].pc = "done") =>
              /\ req'[r].resp.st = "returned"
              /\ req'[r].resp.data.fileCount = Len(req[r].files)
    ]_vars

\* C17 witness: a search for "a" has answered no-matches while the docs
\* directory cannot be listed, although the guide in it has lines
\* containing "a"
C17_Witness ==
    \E r \in ReqIds :
      /\ req[r].pc = "done"
      /\ req[r].op = "search"
      /\ req[r].query = Str(<<"a">>)
      /\ req[r].category = Undefined
      /\ fs[DocsPath] = Unreadable
      /\ fs[GuideAbs] = File(GuideDoc)
      /\ req[r].files = <<>>
      /\ req[r].resp.kind = "no-matches"

\* the operations a client may call
ExternalOps == {"search", "listMethods", "getInfo", "listResources", "readResource"}

\* the positions of a handler that lie after a catalog build of its request
AfterBuildPcs == {"glob", "catalog", "scan", "report"}

\* C18: every external call (search, listMethods with a valid package,
\* getInfo, listResources, readResource) first rebuilds the catalog from
\* disk: the step that answers a request is taken from a position after the
\* catalog build of that request.
C18_EveryCallBuildsCatalog ==
    [][\A r \in ReqIds :
         (/\ req'[r] # req[r]
          /\ req'[r].pc = "done"
          /\ req'[r].op \in ExternalOps
          /\ req'[r].op = "listMethods" => IsValidPackage(req'[r].package)) =>
           req[r].pc \in AfterBuildPcs
    ]_vars

\* the step of request r that sends its response
AnswerStep(r) == req'[r] # req[r] /\ req'[r].pc = "done"

\* the step of request r at which getDocumentationFiles returns
CatalogReturns(r) ==
    /\ req[r].pc \in {"glob", "catalog"}
    /\ req'[r].pc \notin {"glob", "catalog"}

\* C19: there is no cross-request state: whatever requests were answered
\* before and whatever the disk was then, the response to a request is the
\* one its arguments and the disk of the moment determine, and the catalog
\* it builds is the one that disk determines; so two scans of an unchanged
\* directory yield the same records, and a file added, removed or changed
\* is reflected by the very next request.
C19_NoCrossRequestState ==
    [][\A r \in ReqIds :
         /\ AnswerStep(r) => req'[r].resp = AnswerAlone(fs, req'[r])
         /\ CatalogReturns(r) => req'[r].files = CatalogOf(fs)
    ]_vars

\* C19 witness: the client holds the handles of both documents from an
\* earlier listResources; the reference has been removed since, and a search
\* for "a" has answered with the guide only
C19_Witness ==
    \E r \in ReqIds :
      /\ Len(handles) = 2
      /\ handles[1].uri = Scheme \o DomRefRel
      /\ fs[DomRefAbs] = Absent
      /\ req[r].pc = "done"
      /\ req[r].op = "search"
      /\ req[r].query = Str(<<"a">>)
      /\ req[r].category = Undefined
      /\ req[r].resp.kind = "found"
      /\ ResultPaths(req[r].resp.data) = <<GuideRel>>

\* C20: concurrent requests are safe without locks: however the steps of
\* two requests in flight over an unchanged corpus interleave, each request
\* returns the response it would return when run alone, and builds the
\* catalog it would build alone.
C20_InterleavingSafe ==
    [][\A r \in ConcIds :
         /\ AnswerStep(r) => req'[r].resp = AnswerAlone(fs, req'[r])
         /\ CatalogReturns(r) => req'[r].files = CatalogOf(fs)
    ]_vars

\* C20 witness: two searches are in flight at the same time, both between
\* their first and their second read: the search for "a" holds one result,
\* the search for "b" a result list of its own, still empty
C20_Witness ==
    /\ req["r1"].op = "search"
    /\ req["r1"].query = Str(<<"a">>)
    /\ req["r1"].pc = "scan"
    /\ req["r1"].i = 2
    /\ Len(req["r1"].results) = 1
    /\ req["r2"].op = "search"
    /\ req["r2"].query = Str(<<"b">>)
    /\ req["r2"].pc = "scan"
    /\ req["r2"].i = 2
    /\ req["r2"].results = <<>>

\* a blank that is not a line break
IsBlankSym(c) == c \in {" ", "\t"}

\* a level-1 heading line: "#", blanks, and a text
IsTopHeading(line) ==
    /\ Len(line) >= 3
    /\ line[1] = "#"
    /\ IsBlankSym(line[2])
    /\ \E j \in 3..Len(line) : ~IsBlankSym(line[j])

\* the text of a level-1 heading line, from its first non-blank symbol on
TopHeadingText(line) ==
    LET first == CHOOSE j \in 3..Len(line) :
                    /\ ~IsBlankSym(line[j])
                    /\ \A x \in 3..(j - 1) : IsBlankSym(line[x])
    IN SubSeq(line, first, Len(line))

\* the title a document is to get: the text of its first level-1 heading
\* line, the file name without .md when it has none
ExpectedTitle(file, content) ==
    LET lines == Split(content, "\n")
        tops == SelectSeq([i \in 1..Len(lines) |-> i], LAMBDA i : IsTopHeading(lines[i]))
    IN IF tops = <<>> THEN Basename(file, <<".md">>)
       ELSE TopHeadingText(lines[tops[1]])

\* C21: the title of every document record is the text of the first
\* level-1 heading of the document when it has one, and the file name
\* without its extension otherwise.
C21_TitleIsFirstHeading ==
    \A r \in ReqIds :
      \A k \in 1..Len(req[r].files) :
        LET rd == ReadFile(fs, PathJoin(DocsPath, req[r].files[k].path))
        IN rd.ok => req[r].files[k].title = ExpectedTitle(req[r].files[k].path, rd.text)

\* C22: listResources returns exactly one handle per catalog document, in
\* catalog order, its identifier the scheme memberstack:// followed by the
\* document's relative path; the identifiers of one listing are pairwise
\* distinct.
C22_OneHandlePerDocument ==
    [][\A r \in ReqIds :
         (AnswerStep(r) /\ req'[r].op = "listResources") =>
           LET files == req'[r].files
               data == req'[r].resp.data
           IN /\ req'[r].resp.st = "returned"
              /\ Len(data) = Len(files)
              /\ \A k \in 1..Len(files) : data[k].uri = Scheme \o files[k].path
              /\ \A j, k \in 1..Len(data) : data[j].uri = data[k].uri => j = k
    ]_vars

\* C22 witness: a listing of the larger tree has one handle for each of its
\* documents, quick-start.md at the root and admin-package/quick-start.md
\* among them
C22_Witness ==
    \E r \in ReqIds :
      /\ req[r].pc = "done"
      /\ req[r].op = "listResources"
      /\ Len(req[r].resp.data) = Len(WideRels)
      /\ \E k \in 1..Len(req[r].resp.data) :
           req[r].resp.data[k].uri = Scheme \o <<"quick-start", ".md">>
      /\ \E k \in 1..Len(req[r].resp.data) :
           req[r].resp.data[k].uri = Scheme \o <<"admin-package", "/", "quick-start", ".md">>

\* the step of request r at which the read of the validation report settles
ReportReadStep(r) == req[r].pc = "report" /\ req'[r].pc = "done"

\* the coverage values used when the report gives none
FallbackCounts == [dom |-> "unknown", admin |-> "unknown", rest |-> "13 endpoints"]

\* C23: getInfo always returns one text summary; its count of documentation
\* files is the number of records of the catalog built for the request, and
\* its coverage lines are the fallback values (dom unknown, admin unknown,
\* rest 13 endpoints) whenever the validation report is missing or cannot
\* be read.
C23_InfoCountAndFallback ==
    [][\A r \in ReqIds :
         /\ (AnswerStep(r) /\ req'[r].op = "getInfo") => ReportReadStep(r)
         /\ ReportReadStep(r) =>
              /\ req'[r].resp.st = "returned"
              /\ req'[r].resp.kind = "info"
              /\ req'[r].resp.data.fileCount = Len(req'[r].files)
              /\ ~ReadFile(fs, ReportAbs).ok =>
                   req'[r].resp.data.methodCounts = FallbackCounts
    ]_vars

\* C23 witness: getInfo has answered with 2 files and the fallback values
\* while the report is there but cannot be read
C23_Witness ==
    \E r \in ReqIds :
      /\ req[r].pc = "done"
      /\ req[r].op = "getInfo"
      /\ fs[ReportAbs] = Unreadable
      /\ Len(req[r].files) = 2
      /\ req[r].resp.data.fileCount = 2
      /\ req[r].resp.data.methodCounts = FallbackCounts

\* C24: the corpus is read-only for the server: no step of a search,
\* listMethods, getInfo, listResources or readResource request creates,
\* modifies or deletes a file or directory; the disk changes only when the
\* environment changes it.
C24_CorpusReadOnly ==
    [][(\E r \in ReqIds : req'[r] # req[r]) => fs' = fs]_vars

\* C24 witness: readResource has returned the content of the guide, and the
\* guide is on the disk as it was
C24_Witness ==
    \E r \in ReqIds :
      /\ req[r].pc = "done"
      /\ req[r].op = "readResource"
      /\ req[r].uri = Scheme \o GuideRel
      /\ req[r].resp.kind = "contents"
      /\ req[r].resp.data.text = GuideDoc
      /\ fs[GuideAbs] = File(GuideDoc)

\* C25: every signature listMethods extracts is the text between one
\* opening and one closing backtick of one heading line: it contains no
\* backtick and no line break, also when a heading carries two code spans.
C25_SignatureIsOneCodeSpan ==
    \A r \in ReqIds :
      (req[r].pc = "done" /\ req[r].resp.kind = "methods") =>
        \A k \in 1..Len(req[r].resp.data) :
          \A j \in 1..Len(req[r].resp.data[k]) :
            /\ req[r].resp.data[k][j] # Tick
            /\ ~IsLineTerminator(req[r].resp.data[k][j])

\* the methods of the four request handlers
RequestMethods == {"resources/list", "resources/read", "tools/list", "tools/call"}

\* the names the tool listing advertises
AdvertisedNames == {ToolList[i] : i \in 1..Len(ToolList)}

\* the operation each tool name stands for
OperationOf(name) ==
    CASE name = "search_memberstack_docs" -> "search"
      [] name = "list_memberstack_methods" -> "listMethods"
      [] name = "get_documentation_info" -> "getInfo"

\* C26: the tool names the listing advertises are the names the call
\* handler dispatches: every call of an advertised name is routed to its
\* operation and every other name is rejected; and all four request
\* handlers are set before the transport is connected, so no request
\* arrives at a server lacking its handler.
C26_AdvertisedEqualsDispatched ==
    /\ server.connected => server.handlers = RequestMethods
    /\ \A r \in ReqIds :
         /\ req[r].pc # "idle" => server.connected
         /\ (req[r].pc = "done" /\ req[r].op = "listTools") =>
              /\ req[r].resp.st = "returned"
              /\ {req[r].resp.data[i] : i \in 1..Len(req[r].resp.data)}
                   = {n \in ToolNames \cup AdvertisedNames :
                        Dispatch([Idle EXCEPT !.name = n]).op # "unknownTool"}
         /\ req[r].name # "" =>
              IF req[r].name \in AdvertisedNames
              THEN req[r].op = OperationOf(req[r].name)
              ELSE /\ req[r].op = "unknownTool"
                   /\ req[r].pc = "done"
                   /\ req[r].resp.st = "threw"

\* C26 witness: the program has constructed the server and connected the
\* transport, a ListTools request has been answered with three names
C26_Witness ==
    \E r \in ReqIds :
      /\ server.pc = "running"
      /\ req[r].pc = "done"
      /\ req[r].op = "listTools"
      /\ Len(req[r].resp.data) = 3

\* C27: readResource is confined to the corpus: whatever the identifier
\* (with ".." segments, without the scheme, naming a file that is not
\* markdown), the file whose content is returned lies under the docs root
\* and is a markdown document that listResources would list.
C27_ReadConfinedToCorpus ==
    [][\A r \in ReqIds :
         (ResourceReadStep(r) /\ req'[r].resp.st = "returned") =>
           LET full == PathJoin(DocsPath, Replace(req[r].uri, Scheme, <<>>))
           IN /\ StartsWith(full, DocsPath \o <<"/">>)
              /\ EndsWith(full, <<".md">>)
              /\ \E k \in 1..Len(Glob(fs, DocsPath)) :
                   PathJoin(DocsPath, Glob(fs, DocsPath)[k]) = full
    ]_vars

\* the package directories and the category each gives
PackageDirs ==
    <<[dir |-> <<"dom-package">>, tag |-> "dom-api"],
      [dir |-> <<"admin-package">>, tag |-> "admin-api"],
      [dir |-> <<"rest-api">>, tag |-> "rest-api"]>>

\* the first package directory named in path p, 0 when there is none
PackageOf(p) ==
    LET hits == {k \in 1..Len(PackageDirs) : Includes(p, PackageDirs[k].dir)}
    IN IF hits = {} THEN 0 ELSE CHOOSE k \in hits : \A j \in hits : k <= j

LaterCategories == {"integration-patterns", "decision-trees"}

\* C28: rule precedence shadows the later categories: every record whose
\* path contains dom-package, admin-package or rest-api has that package's
\* category, also when the path contains integration-patterns or
\* decision-trees; so dom-package/dom-integration-patterns.md and
\* dom-package/dom-decision-trees.md are dom-api, and a search filtered on
\* integration-patterns or decision-trees returns no document of a package
\* directory.
C28_PackageShadowsSubject ==
    \A r \in ReqIds :
      /\ \A k \in 1..Len(req[r].files) :
           PackageOf(req[r].files[k].path) # 0 =>
             req[r].files[k].category = PackageDirs[PackageOf(req[r].files[k].path)].tag
      /\ (req[r].op = "search" /\ req[r].category.t = "string"
            /\ req[r].category.v # <<>> /\ req[r].category.v[1] \in LaterCategories) =>
           \A k \in 1..Len(req[r].results) : PackageOf(req[r].results[k].file) = 0

\* C28 witness: a search for "a" filtered on integration-patterns has
\* answered with guides/integration-patterns.md only, while the catalog
\* holds dom-package/dom-integration-patterns.md and
\* dom-package/dom-decision-trees.md, both dom-api, both with a line
\* containing "a"
C28_Witness ==
    \E r \in ReqIds :
      /\ req[r].pc = "done"
      /\ req[r].op = "search"
      /\ req[r].query = Str(<<"a">>)
      /\ req[r].category = Str(<<"integration-patterns">>)
      /\ ResultPaths(req[r].resp.data) = << <<"guides", "/", "integration-patterns", ".md">> >>
      /\ \E j, k \in 1..Len(req[r].files) :
           /\ req[r].files[j].path = <<"dom-package", "/", "dom-", "integration-patterns", ".md">>
           /\ req[r].files[j].category = "dom-api"
           /\ req[r].files[k].path = <<"dom-package", "/", "dom-", "decision-trees", ".md">>
           /\ req[r].files[k].category = "dom-api"
           /\ HasMatchingLine(fs[PathJoin(DocsPath, req[r].files[j].path)].text, <<"a">>)

\* the coverage values when all three come from the report
ReportCounts == [dom |-> "report", admin |-> "report", rest |-> "report"]

\* C29: the coverage section of getInfo is all-or-nothing: whatever is at
\* the place of the validation report (nothing, invalid JSON, valid JSON
\* lacking the dom, admin or rest section), the three coverage lines are
\* all derived from the report or all the fallback values, never a mix.
C29_CoverageAllOrNothing ==
    [][\A r \in ReqIds :
         ReportReadStep(r) =>
           req'[r].resp.data.methodCounts \in {ReportCounts, FallbackCounts}
    ]_vars

\* request r is being handled
InFlight(r) == req[r].pc \notin {"idle", "done"}

\* every match of the method pattern in text s ends beyond the place the
\* search for it started from
MatchesAdvance(s) ==
    \A from \in 1..(Len(s) + 1) :
      MethodExec(s, from).found => MethodExec(s, from).next > from

\* C30: every request terminates on a finite corpus: a request being
\* handled is answered in the end; the catalog loop goes to the next
\* discovered file at every read, the search loop to a later catalog entry
\* at every read, and every match of the extraction loop of listMethods
\* consumes at least one character.
C30_EveryRequestTerminates ==
    /\ \A r \in ReqIds : InFlight(r) ~> (req[r].pc = "done")
    /\ [][\A r \in ReqIds :
            /\ (req[r].pc = "catalog" /\ req'[r].pc = "catalog") =>
                 /\ req'[r].i = req[r].i + 1
                 /\ req'[r].i <= Len(req'[r].docFiles)
            /\ (req[r].pc = "scan" /\ req'[r].pc = "scan") =>
                 /\ req'[r].i > req[r].i
                 /\ req'[r].i <= Len(req'[r].files)
            /\ MethodsReadStep(r) =>
                 LET rd == ReadFile(fs, PathJoin(DocsPath, MethodMapping(req[r].package).v))
                 IN rd.ok => MatchesAdvance(rd.text)
       ]_vars

\* C30 witness: a search for a blank has gone through the catalog loop over
\* every discovered file of the larger tree and through the search loop over
\* every catalog entry, and has been answered with hits
C30_Witness ==
    \E r \in ReqIds :
      /\ req[r].pc = "done"
      /\ req[r].op = "search"
      /\ req[r].query = Str(<<" ">>)
      /\ Len(req[r].docFiles) = Cardinality(WidePaths)
      /\ Len(req[r].files) = Len(req[r].docFiles)
      /\ req[r].i = Len(req[r].files)
      /\ req[r].resp.data # <<>>

====
